---- MODULE Spec2Model ----
(***************************************************************************)
(* SOC2 compliance API (examples/soc2-api-endpoint.py): a Flask service    *)
(* that stores security-scan results in one table, soc2_security_scans,    *)
(* and reports on them.  Every request is a process; the table, the id    *)
(* sequence and the clock are shared.  A POST walks through its handler in *)
(* three steps (up to the connection, the INSERT, the commit); a GET reads *)
(* the table once and is one step.                                         *)
(*                                                                         *)
(* Time is counted in days.  A datetime is the integer day it denotes; an  *)
(* ISO-8601 string is a record [fmt, t] whose fmt says how it is written   *)
(* ("Z": trailing Z, "offset": +00:00, "naive": no zone, "garbage": not a  *)
(* timestamp at all).  The Authorization header and the secret are         *)
(* sequences of characters.  A JSON object is a function from its keys.    *)
(***************************************************************************)
EXTENDS Integers, Sequences, FiniteSets, Bags, TLC

\* secret: API_SECRET_KEY of the process environment
\* table:  the committed rows of soc2_security_scans
\* seq:    the last id the table's sequence handed out
\* now:    the clock
\* req:    the bag of requests in flight
VARIABLES secret, table, seq, now, req

vars == <<secret, table, seq, now, req>>

(***************************************************************************)
(* Bounds of the model.                                                    *)
(***************************************************************************)
\* Requests in flight at the same time.
MaxInFlight == 2
\* Ids the sequence hands out: the INSERTs of one behaviour.
MaxScans == 2
\* The last day the clock reaches.
MaxClock == 1
\* Pieces an Authorization header of SpecAuth is put together from.
MaxParts == 2

(***************************************************************************)
(* Strings.                                                                *)
(***************************************************************************)
Bearer == <<"B", "e", "a", "r", "e", "r", " ">>

StartsWith(s, p) == Len(s) >= Len(p) /\ SubSeq(s, 1, Len(p)) = p

\* str.replace(old, new), old not empty: every occurrence, left to right,
\* without overlap.
RECURSIVE Replace(_, _, _)
Replace(s, old, new) ==
  IF s = <<>> THEN <<>>
  ELSE IF StartsWith(s, old)
       THEN new \o Replace(SubSeq(s, Len(old) + 1, Len(s)), old, new)
       ELSE <<Head(s)>> \o Replace(Tail(s), old, new)

\* os.getenv('API_SECRET_KEY'): None when the variable is not set.
NoSecret == [set |-> FALSE, value |-> <<>>]
SecretOf(v) == [set |-> TRUE, value |-> v]

\* request.headers.get('Authorization', ''): a missing header reads as ''.
validate_api_key(header) ==
  LET api_key == Replace(header, Bearer, <<>>)
      expected_key == secret
  IN  IF api_key = <<>> \/ ~expected_key.set \/ api_key # expected_key.value
      THEN FALSE
      ELSE TRUE

(***************************************************************************)
(* JSON and request bodies.                                                *)
(***************************************************************************)
Empty == <<>>

\* dict.get(key, default)
Get(o, k, d) == IF k \in DOMAIN o THEN o[k] ELSE d

JNull == [kind |-> "json", type |-> "null", size |-> 0, fields |-> Empty]
JArray(n) == [kind |-> "json", type |-> "array", size |-> n, fields |-> Empty]
JObject(f) ==
  [kind |-> "json", type |-> "object", size |-> Cardinality(DOMAIN f), fields |-> f]
\* No body (or no JSON content type), and a body that is not JSON.
BodyAbsent == [kind |-> "absent", type |-> "none", size |-> 0, fields |-> Empty]
BodyMalformed == [kind |-> "malformed", type |-> "none", size |-> 0, fields |-> Empty]
NoBody == [kind |-> "none", type |-> "none", size |-> 0, fields |-> Empty]

\* Python's truth value of a parsed JSON value: None, [] and {} are false.
Truthy(v) == v.size > 0

\* flask's request.get_json(): the parsed body; a body that does not parse
\* raises BadRequest; without a JSON body it returns None (Flask < 2.1) or
\* raises UnsupportedMediaType (Flask >= 2.1).
get_json(body) ==
  CASE body.kind = "absent" ->
         {[exc |-> "none", data |-> JNull], [exc |-> "HTTPException", data |-> JNull]}
    [] body.kind = "malformed" -> {[exc |-> "HTTPException", data |-> JNull]}
    [] OTHER -> {[exc |-> "none", data |-> body]}

(***************************************************************************)
(* Timestamps.                                                             *)
(***************************************************************************)
Ts(fmt, t) == [fmt |-> fmt, t |-> t]

\* datetime.isoformat() of a naive datetime (datetime.utcnow()).
isoformat(t) == Ts("naive", t)

\* .replace('Z', '+00:00')
ReplaceZ(ts) == IF ts.fmt = "Z" THEN Ts("offset", ts.t) ELSE ts

\* datetime.fromisoformat: ValueError on anything it does not read, a
\* trailing Z included (Python < 3.11).
fromisoformat(ts) == [ok |-> (ts.fmt = "offset" \/ ts.fmt = "naive"), t |-> ts.t]

\* line 114
scan_time(scan_metadata, utcnow) ==
  fromisoformat(ReplaceZ(Get(scan_metadata, "timestamp", isoformat(utcnow))))

(***************************************************************************)
(* The row of soc2_security_scans an INSERT writes.                        *)
(***************************************************************************)
Null == [null |-> TRUE]
NotNull(v) == [null |-> FALSE, v |-> v]
\* dict.get(key) of a nullable column
GetOrNull(o, k) == IF k \in DOMAIN o THEN NotNull(o[k]) ELSE Null

sast_findings(scan_results) ==
  Get(Get(scan_results, "sast", Empty), "semgrep_findings", 0)
  + Get(Get(scan_results, "sast", Empty), "eslint_findings", 0)
  + Get(Get(scan_results, "sast", Empty), "bandit_findings", 0)

Row(id, data, time) ==
  LET scan_metadata == Get(data, "scan_metadata", Empty)
      compliance_status == Get(data, "compliance_status", Empty)
      scan_results == Get(data, "scan_results", Empty)
      evidence_artifacts == Get(data, "evidence_artifacts", Empty)
      scan_coverage == Get(compliance_status, "scan_coverage", Empty)
  IN  [ id |-> id,
        timestamp |-> time,
        repository |-> Get(scan_metadata, "repository", ""),
        application |-> Get(scan_metadata, "application", ""),
        branch |-> Get(scan_metadata, "branch", ""),
        commit_sha |-> Get(scan_metadata, "commit_sha", ""),
        scan_type |-> Get(scan_metadata, "scan_type", ""),
        overall_status |-> Get(compliance_status, "overall_status", "UNKNOWN"),
        total_issues |-> Get(compliance_status, "total_issues", 0),
        severity_threshold |-> Get(compliance_status, "severity_threshold", ""),
        secrets_scanning |-> Get(scan_coverage, "secrets_scanning", FALSE),
        sast_scanning |-> Get(scan_coverage, "sast_scanning", FALSE),
        dependency_scanning |-> Get(scan_coverage, "dependency_scanning", FALSE),
        container_scanning |-> Get(scan_coverage, "container_scanning", FALSE),
        dast_scanning |-> Get(scan_coverage, "dast_scanning", FALSE),
        secrets_findings |-> Get(Get(scan_results, "secrets", Empty), "findings", 0),
        sast_findings |-> sast_findings(scan_results),
        dependency_vulnerabilities |->
          Get(Get(scan_results, "dependencies", Empty), "vulnerabilities", 0),
        web_security_grade |->
          Get(Get(scan_results, "web_security", Empty), "security_headers_grade", ""),
        workflow_run_id |-> GetOrNull(scan_metadata, "workflow_run_id"),
        workflow_run_number |-> GetOrNull(scan_metadata, "workflow_run_number"),
        sarif_uploaded |-> Get(evidence_artifacts, "sarif_uploaded", FALSE),
        artifacts_available |-> Get(evidence_artifacts, "artifacts_available", TRUE),
        \* json.dumps(data): the payload as it was received
        scan_metadata_json |-> data ]

(***************************************************************************)
(* A request in flight.  conn and cur are "none" (never acquired), "open"  *)
(* or "closed"; txn is the connection's transaction: "none", "open",       *)
(* "committed", "rolledback", or "aborted" (the connection was closed over *)
(* an open transaction).  pending holds the row an INSERT wrote that is    *)
(* not committed yet, inserted the ids of the rows the request INSERTed.   *)
(* touched says the request has called the storage layer, exc is the       *)
(* exception raised in the handler (its class and the call that raised     *)
(* it), logs are the log entries the request has emitted.                  *)
(***************************************************************************)
NoArgs == [days |-> "", application |-> ""]
NoResp == [status |-> 0, json |-> Empty]
NoExc == [class |-> "none", at |-> "none"]

Request(endpoint, origin, header, body, args) ==
  [ pc |-> "start", endpoint |-> endpoint, origin |-> origin, header |-> header,
    body |-> body, args |-> args, conn |-> "none", cur |-> "none", txn |-> "none",
    pending |-> {}, inserted |-> {}, touched |-> FALSE, exc |-> NoExc,
    resp |-> NoResp, logs |-> <<>> ]

Response(status, json) == [status |-> status, json |-> json]

Unauthorized == Response(401, [error |-> "Unauthorized"])

Log(level, event) == [level |-> level, event |-> event]

Raise(s, class, at) == [s EXCEPT !.exc = [class |-> class, at |-> at]]

\* psycopg2.connect, conn.cursor, cur.execute, cur.fetchone and conn.commit
\* raise subclasses of psycopg2.Error.
IsDatabaseError(class) == class = "psycopg2.Error"

\* conn.rollback()
Rollback(s) ==
  [s EXCEPT !.txn = IF s.txn = "open" THEN "rolledback" ELSE s.txn,
            !.pending = {}]

\* Fault variant: a finally block that closes the cursor and forgets the
\* connection.
CloseCursorOnly(s) ==
  [s EXCEPT !.cur = IF s.cur = "open" THEN "closed" ELSE s.cur]

\* The finally blocks: cur.close() and conn.close(), each if it was acquired.
\* Closing a connection discards a transaction that is still open.
Close(s) ==
  [s EXCEPT !.cur = IF s.cur = "open" THEN "closed" ELSE s.cur,
            !.conn = IF s.conn = "open" THEN "closed" ELSE s.conn,
            !.txn = IF s.conn = "open" /\ s.txn = "open" THEN "aborted" ELSE s.txn,
            !.pending = {}]

\* The handler returns through its finally block.
Finally(s) == [Close(s) EXCEPT !.pc = "done"]

\* The bag of requests in flight.
Put(B, t) == B (+) SetToBag({t})
Take(B, s) == B (-) SetToBag({s})
InFlight == BagToSet(req)

\* The response of a handler that has returned is sent before anything else
\* happens: sending is local to its request and commutes with every other
\* step, so no interleaving of the storage calls is lost.
Sent == \A u \in InFlight : u.pc # "done"

\* Flask hands a request to its handler, which runs up to t.
Enter(t) ==
  /\ Sent
  /\ BagCardinality(req) < MaxInFlight
  /\ req' = Put(req, t)

\* The handler of s runs on to t.
Move(s, t) ==
  /\ Sent
  /\ req' = Put(Take(req, s), t)

(***************************************************************************)
(* The table and its transactions.  The connection is not in autocommit    *)
(* mode: an INSERT stays in its transaction until the commit.              *)
(***************************************************************************)
\* Fault variant: a connection in autocommit mode, where the INSERT is visible
\* at once.
TableAutocommit(rows, row) == rows \cup {row}

TableAfterInsert(rows, row) == rows
TableAfterCommit(rows, pending) == rows \cup pending

(***************************************************************************)
(* POST /security-scans                                                    *)
(***************************************************************************)
\* Fault variant: a single except clause that treats every failure alike.
PostExceptAny(s) ==
  [s EXCEPT !.logs = Append(s.logs, Log("ERROR", "unexpected_error")),
            !.resp = Response(500, [error |-> "Internal server error"])]

\* The except clauses of receive_security_scan, psycopg2.Error first.
PostExcept(s) ==
  IF IsDatabaseError(s.exc.class)
  THEN LET t == IF s.conn # "none" THEN Rollback(s) ELSE s
       IN  [t EXCEPT !.logs = Append(s.logs, Log("ERROR", "database_error")),
                     !.resp = Response(500, [error |-> "Database error occurred"])]
  ELSE [s EXCEPT !.logs = Append(s.logs, Log("ERROR", "unexpected_error")),
                 !.resp = Response(500, [error |-> "Internal server error"])]

PostFail(s, class, at) == Finally(PostExcept(Raise(s, class, at)))

\* lines 95-96: get_db_connection() and conn.cursor()
ScanOpen(s) ==
  { [s EXCEPT !.touched = TRUE, !.conn = "open", !.cur = "open", !.pc = "execute"],
    PostFail([s EXCEPT !.touched = TRUE], "psycopg2.Error", "connect"),
    PostFail([s EXCEPT !.touched = TRUE, !.conn = "open"], "psycopg2.Error", "cursor") }

\* Lines 77-96: the credential check, then the body, then the connection.
\* A body that does not parse raises inside the try; None, [] and {} are
\* "no data"; a JSON value with no .get raises AttributeError.
ScanBegin(s) ==
  IF ~validate_api_key(s.header)
  THEN {[s EXCEPT !.logs = Append(@, [level |-> "WARNING", event |-> "unauthorized",
                                      origin |-> s.origin]),
                  !.resp = Unauthorized,
                  !.pc = "done"]}
  ELSE UNION {IF out.exc # "none" THEN {PostFail(s, out.exc, "get_json")}
              ELSE IF ~Truthy(out.data)
                   THEN {Finally([s EXCEPT !.resp =
                                   Response(400, [error |-> "No JSON data provided"])])}
              ELSE IF out.data.type # "object"
                   THEN {PostFail(s, "AttributeError", "get")}
              ELSE ScanOpen(s)
              : out \in get_json(s.body)}

\* The log entries and the response after the commit, lines 150-167.
ScanStored(s, row) ==
  LET compliance_status == Get(s.body.fields, "compliance_status", Empty)
      scan_metadata == Get(s.body.fields, "scan_metadata", Empty)
      stored == Append(s.logs, [level |-> "INFO", event |-> "stored", scan_id |-> row.id])
  IN  [s EXCEPT
         !.logs =
           IF "overall_status" \in DOMAIN compliance_status
              /\ compliance_status["overall_status"] = "NON_COMPLIANT"
           THEN Append(stored,
                  [level |-> "WARNING", event |-> "non_compliant",
                   application |-> Get(scan_metadata, "application", "unknown")])
           ELSE stored,
         !.resp = Response(201,
           [status |-> "success",
            scan_id |-> row.id,
            message |-> "Security scan data received and stored",
            compliance_status |-> Get(compliance_status, "overall_status", "UNKNOWN")])]

\* receive_security_scan up to its INSERT: lines 73-96
ReceiveScan(arrivals) ==
  /\ seq + Cardinality({s \in InFlight : s.endpoint = "POST /security-scans"
                                         /\ s.pc = "execute"})
       < MaxScans
  /\ \E s \in arrivals :
       /\ s.endpoint = "POST /security-scans"
       /\ \E t \in ScanBegin(s) : Enter(t)
  /\ UNCHANGED <<secret, table, seq, now>>

\* lines 98-144: the arguments are computed first (the timestamp may raise
\* ValueError), then the INSERT opens the transaction and draws the id, then
\* the id is fetched.
ScanExecute ==
  /\ \E s \in InFlight :
       /\ s.pc = "execute" /\ s.endpoint = "POST /security-scans"
       /\ LET data == s.body.fields
              time == scan_time(Get(data, "scan_metadata", Empty), now)
              row == Row(seq + 1, data, time.t)
              begun == [s EXCEPT !.txn = "open"]
          IN  IF ~time.ok
              THEN /\ Move(s, PostFail(s, "ValueError", "fromisoformat"))
                   /\ UNCHANGED <<table, seq>>
              ELSE \/ /\ Move(s, PostFail(begun, "psycopg2.Error", "execute"))
                      /\ UNCHANGED <<table, seq>>
                   \/ /\ \E t \in
                           { [begun EXCEPT !.pending = {row}, !.inserted = {row.id},
                                           !.pc = "commit"],
                             PostFail([begun EXCEPT !.pending = {row},
                                                    !.inserted = {row.id}],
                                      "psycopg2.Error", "fetchone") } :
                           Move(s, t)
                      /\ seq' = seq + 1
                      /\ table' = TableAfterInsert(table, row)
  /\ UNCHANGED <<secret, now>>

\* lines 145-183: the commit, the log entries, the 201 response
ScanCommit ==
  /\ \E s \in InFlight :
       /\ s.pc = "commit" /\ s.endpoint = "POST /security-scans"
       /\ \/ /\ table' = TableAfterCommit(table, s.pending)
             /\ Move(s, Finally(ScanStored([s EXCEPT !.txn = "committed",
                                                          !.pending = {}],
                                                CHOOSE x \in s.pending : TRUE)))
          \/ /\ table' = table
             /\ Move(s, PostFail(s, "psycopg2.Error", "commit"))
  /\ UNCHANGED <<secret, seq, now>>

(***************************************************************************)
(* SQL over the table.                                                     *)
(***************************************************************************)
\* The default of the days parameter (line 195) and LIMIT 10 (line 248).
DefaultDays == 30
RecentLimit == 10

\* request.args.get('days', 30, type=int): a value int() does not read
\* falls back to the default.
ParseDays(text) ==
  CASE text = "0" -> 0
    [] text = "1" -> 1
    [] text = "2" -> 2
    [] OTHER -> DefaultDays

RECURSIVE SumIssues(_)
SumIssues(S) ==
  IF S = {} THEN 0
  ELSE LET x == CHOOSE y \in S : TRUE IN x.total_issues + SumIssues(S \ {x})

Max(S) == CHOOSE m \in S : \A x \in S : x <= m

\* round(a / b, 2), counted in hundredths.
Round2(a, b) == (200 * a + b) \div (2 * b)

\* The orders in which ORDER BY key DESC may return the rows of S: rows
\* with equal values in the column key come in any order.
Orderings(S, key) ==
  {f \in [1 .. Cardinality(S) -> S] :
     /\ \A i, j \in DOMAIN f : i # j => f[i] # f[j]
     /\ \A i, j \in DOMAIN f : i < j => f[i][key] >= f[j][key]}

Limit(f, n) == SubSeq(f, 1, IF Len(f) < n THEN Len(f) ELSE n)

\* WHERE timestamp >= NOW() - INTERVAL '<days> days' [AND application = %s]
InWindow(rows, at, days, application) ==
  {x \in rows : /\ x.timestamp >= at - days
                /\ application # "" => x.application = application}

\* lines 210-219; AVG and MAX of no rows are NULL
StatsQuery(rows) ==
  [ total_scans |-> Cardinality(rows),
    compliant_scans |-> Cardinality({x \in rows : x.overall_status = "COMPLIANT"}),
    non_compliant_scans |->
      Cardinality({x \in rows : x.overall_status = "NON_COMPLIANT"}),
    sum_issues |-> SumIssues(rows),
    max_issues_in_scan |->
      IF rows = {} THEN Null ELSE NotNull(Max({x.total_issues : x \in rows})) ]

\* lines 225-235
AppGroups(rows) ==
  {[ application |-> a,
     scans |-> Cardinality({x \in rows : x.application = a}),
     compliant |-> Cardinality({x \in rows : x.application = a
                                             /\ x.overall_status = "COMPLIANT"}),
     avg_issues |-> Round2(SumIssues({x \in rows : x.application = a}),
                           Cardinality({x \in rows : x.application = a})) ]
   : a \in {x.application : x \in rows}}

AppQuery(rows) == Orderings(AppGroups(rows), "scans")

\* lines 241-249
RecentColumns(x) ==
  [ application |-> x.application, repository |-> x.repository,
    timestamp |-> x.timestamp, total_issues |-> x.total_issues,
    workflow_run_id |-> x.workflow_run_id, overall_status |-> x.overall_status ]
RecentQuery(rows) ==
  {[i \in DOMAIN Limit(f, RecentLimit) |-> RecentColumns(f[i])] :
     f \in Orderings({x \in rows : x.overall_status = "NON_COMPLIANT"}, "timestamp")}

\* Fault variant: ORDER BY timestamp ASC LIMIT 1.
OldestQuery(rows, application) ==
  LET mine == {x \in rows : x.application = application}
  IN  {x \in mine : \A y \in mine : x.timestamp <= y.timestamp}

\* lines 300-305: the rows ORDER BY timestamp DESC LIMIT 1 may return
LatestQuery(rows, application) ==
  LET mine == {x \in rows : x.application = application}
  IN  {x \in mine : \A y \in mine : y.timestamp <= x.timestamp}

(***************************************************************************)
(* GET /compliance-report                                                  *)
(***************************************************************************)
\* get_compliance_report, except Exception
ReportFail(s, class, at) ==
  Finally([Raise(s, class, at) EXCEPT
             !.logs = Append(s.logs, Log("ERROR", "report_error")),
             !.resp = Response(500, [error |-> "Failed to generate report"])])

\* lines 198-199
ReportOpen(s) ==
  { [s EXCEPT !.touched = TRUE, !.conn = "open", !.cur = "open", !.pc = "query"],
    ReportFail([s EXCEPT !.touched = TRUE], "psycopg2.Error", "connect"),
    ReportFail([s EXCEPT !.touched = TRUE, !.conn = "open"], "psycopg2.Error", "cursor") }

\* Fault variant: the connection is opened before the credential check.
ReportBeginConnectFirst(s) ==
  IF ~validate_api_key(s.header)
  THEN {Finally([s EXCEPT !.touched = TRUE, !.conn = "open", !.cur = "open",
                          !.resp = Unauthorized])}
  ELSE ReportOpen(s)

\* lines 189-199: the credential check, then the connection
ReportBegin(s) ==
  IF ~validate_api_key(s.header)
  THEN {[s EXCEPT !.resp = Unauthorized, !.pc = "done"]}
  ELSE ReportOpen(s)

\* lines 254-273
ReportDocument(s, days, stats_result, applications, recent_issues, utcnow) ==
  LET compliance_percentage ==
        IF stats_result.total_scans > 0
        THEN Round2(stats_result.compliant_scans * 100, stats_result.total_scans)
        ELSE 0
  IN  [ report_generated |-> isoformat(utcnow),
        period_days |-> days,
        filter_application |-> s.args.application,
        summary |->
          [ total_scans |-> stats_result.total_scans,
            compliant_scans |-> stats_result.compliant_scans,
            non_compliant_scans |-> stats_result.non_compliant_scans,
            compliance_percentage |-> compliance_percentage,
            avg_issues_per_scan |->
              IF stats_result.total_scans > 0
              THEN Round2(stats_result.sum_issues, stats_result.total_scans)
              ELSE 0,
            max_issues_in_scan |-> stats_result.max_issues_in_scan ],
        applications |-> applications,
        recent_non_compliant_scans |-> recent_issues ]

\* lines 201-285: the three queries, read in one step, and the report built
\* from them
ReportQuery(s, rows, utcnow) ==
  LET days == ParseDays(s.args.days)
      seen == InWindow(rows, utcnow, days, s.args.application)
      begun == [s EXCEPT !.txn = "open"]
  IN  { Finally([begun EXCEPT !.resp = Response(200,
                   ReportDocument(s, days, StatsQuery(seen), applications,
                                  recent_issues, utcnow))])
        : applications \in AppQuery(seen), recent_issues \in RecentQuery(seen) }
      \cup {ReportFail(begun, "psycopg2.Error", "execute")}

\* The whole handler, lines 185-285.  The connection is the request's own
\* and the queries are the handler's only reads of the table, so the handler
\* is one step, taken when it queries.
get_compliance_report(arrivals) ==
  /\ \E s \in arrivals :
       /\ s.endpoint = "GET /compliance-report"
       /\ \E t \in ReportBegin(s) :
            \E u \in (IF t.pc = "query" THEN ReportQuery(t, table, now) ELSE {t}) :
              Enter(u)
  /\ UNCHANGED <<secret, table, seq, now>>

(***************************************************************************)
(* GET /compliance-status/<application>                                    *)
(***************************************************************************)
\* get_application_status, except Exception
StatusFail(s, class, at) ==
  Finally([Raise(s, class, at) EXCEPT
             !.logs = Append(s.logs, Log("ERROR", "status_error")),
             !.resp = Response(500, [error |-> "Failed to get status"])])

\* lines 296-297
StatusOpen(s) ==
  { [s EXCEPT !.touched = TRUE, !.conn = "open", !.cur = "open", !.pc = "query"],
    StatusFail([s EXCEPT !.touched = TRUE], "psycopg2.Error", "connect"),
    StatusFail([s EXCEPT !.touched = TRUE, !.conn = "open"], "psycopg2.Error", "cursor") }

\* lines 291-297: the credential check, then the connection
StatusBegin(s) ==
  IF ~validate_api_key(s.header)
  THEN {[s EXCEPT !.resp = Unauthorized, !.pc = "done"]}
  ELSE StatusOpen(s)

\* lines 313-325
StatusDocument(application, latest_scan) ==
  [ application |-> application,
    current_status |-> latest_scan.overall_status,
    last_scan |-> isoformat(latest_scan.timestamp),
    total_issues |-> latest_scan.total_issues,
    scan_coverage |->
      [ secrets_scanning |-> latest_scan.secrets_scanning,
        sast_scanning |-> latest_scan.sast_scanning,
        dependency_scanning |-> latest_scan.dependency_scanning,
        container_scanning |-> latest_scan.container_scanning,
        dast_scanning |-> latest_scan.dast_scanning ] ]

\* lines 307-325: what the handler answers when the query returns `found`
StatusAnswer(s, found) ==
  IF found = {}
  THEN {Finally([s EXCEPT !.resp = Response(404, [error |-> "Application not found"])])}
  ELSE {Finally([s EXCEPT !.resp =
                   Response(200, StatusDocument(s.args.application, latest_scan))])
        : latest_scan \in found}

\* lines 299-335
StatusQuery(s, rows) ==
  LET begun == [s EXCEPT !.txn = "open"]
  IN  StatusAnswer(begun, LatestQuery(rows, s.args.application))
      \cup {StatusFail(begun, "psycopg2.Error", "execute")}

\* The whole handler, lines 287-335: one step, taken when it queries.
get_application_status(arrivals) ==
  /\ \E s \in arrivals :
       /\ s.endpoint = "GET /compliance-status"
       /\ \E t \in StatusBegin(s) :
            \E u \in (IF t.pc = "query" THEN StatusQuery(t, table) ELSE {t}) :
              Enter(u)
  /\ UNCHANGED <<secret, table, seq, now>>

(***************************************************************************)
(* GET /health                                                             *)
(***************************************************************************)
\* lines 63-71: no credential check; the connection is closed at once
HealthAnswer(s, utcnow) ==
  { [s EXCEPT !.touched = TRUE, !.conn = "closed",
              !.resp = Response(200, [status |-> "healthy",
                                      timestamp |-> isoformat(utcnow)]),
              !.pc = "done"],
    [Raise(s, "psycopg2.Error", "connect") EXCEPT
              !.touched = TRUE,
              !.resp = Response(500, [status |-> "unhealthy",
                                      error |-> "connection failed"]),
              !.pc = "done"] }

health_check(arrivals) ==
  /\ \E s \in arrivals :
       /\ s.endpoint = "GET /health"
       /\ \E t \in HealthAnswer(s, now) : Enter(t)
  /\ UNCHANGED <<secret, table, seq, now>>

(***************************************************************************)
(* The requests that arrive.                                               *)
(***************************************************************************)
Key == <<"s">>
OtherKey == <<"k">>
Peer == "198.51.100.7"

Secrets == {NoSecret, SecretOf(Key)}
Headers == {<<>>, Bearer \o Key}

ScanA ==
  [ scan_metadata |-> [application |-> "svc-a"],
    compliance_status |-> [overall_status |-> "NON_COMPLIANT", total_issues |-> 5] ]
ScanB ==
  [ scan_metadata |-> [application |-> "svc-a", timestamp |-> Ts("Z", 0)],
    compliance_status |-> [overall_status |-> "COMPLIANT",
                           scan_coverage |-> [sast_scanning |-> TRUE]] ]
ScanC ==
  [ scan_metadata |-> [application |-> "svc-b", timestamp |-> Ts("garbage", 0)] ]

Bodies ==
  {BodyAbsent, BodyMalformed, JArray(1), JObject(Empty),
   JObject(ScanA), JObject(ScanB), JObject(ScanC)}

ReportArgs == {[days |-> "", application |-> ""], [days |-> "1", application |-> "svc-a"]}
StatusArgs == {[days |-> "", application |-> "svc-a"], [days |-> "", application |-> "svc-b"]}

\* The requests of the given headers and bodies.
Arrivals(headers, bodies) ==
  {Request("POST /security-scans", Peer, h, b, NoArgs) : h \in headers, b \in bodies}
  \cup {Request("GET /compliance-report", Peer, h, NoBody, a) :
          h \in headers, a \in ReportArgs}
  \cup {Request("GET /compliance-status", Peer, h, NoBody, a) :
          h \in headers, a \in StatusArgs}
  \cup {Request("GET /health", Peer, <<>>, NoBody, NoArgs)}

\* The response has been sent; the request's locals are gone.
Return ==
  /\ \E s \in InFlight :
       /\ s.pc = "done"
       /\ req' = Take(req, s)
  /\ UNCHANGED <<secret, table, seq, now>>

\* Time passes.
Tick ==
  /\ Sent
  /\ now < MaxClock
  /\ now' = now + 1
  /\ UNCHANGED <<secret, table, seq, req>>

Init ==
  /\ secret \in Secrets
  /\ table = {}
  /\ seq = 0
  /\ now = 0
  /\ req = EmptyBag

Requests == Arrivals(Headers, Bodies)

Next ==
  \/ ReceiveScan(Requests)
  \/ ScanExecute
  \/ ScanCommit
  \/ get_compliance_report(Requests)
  \/ get_application_status(Requests)
  \/ health_check(Requests)
  \/ Return
  \/ Tick

Spec == Init /\ [][Next]_vars

(***************************************************************************)
(* The credential check alone: every header put together from a few pieces *)
(* against every secret.                                                   *)
(***************************************************************************)
HeaderParts == {Bearer, Key, OtherKey, <<"B", "e", "a", "r">>, <<"e", "r", " ">>}

RECURSIVE Concats(_)
Concats(n) ==
  IF n = 0 THEN {<<>>}
  ELSE Concats(n - 1) \cup {p \o h : p \in HeaderParts, h \in Concats(n - 1)}

AuthHeaders == Concats(MaxParts)
AuthSecrets == {NoSecret, SecretOf(<<>>), SecretOf(Key), SecretOf(Key \o OtherKey)}
AuthBodies == {JObject(ScanA)}
AuthRequests == Arrivals(AuthHeaders, AuthBodies)

InitAuth ==
  /\ secret \in AuthSecrets
  /\ table = {}
  /\ seq = 0
  /\ now = 0
  /\ req = EmptyBag

NextAuth ==
  \/ ReceiveScan(AuthRequests)
  \/ get_compliance_report(AuthRequests)
  \/ get_application_status(AuthRequests)
  \/ Return

SpecAuth == InitAuth /\ [][NextAuth]_vars

(***************************************************************************)
(* Scan ingestion alone: one scan at a time into an empty table, over      *)
(* payloads with every choice of sections and many choices of sub-fields.  *)
(***************************************************************************)
MetaObjects ==
  { Empty,
    [application |-> "svc-a"],
    [timestamp |-> Ts("Z", 1)],
    [timestamp |-> Ts("garbage", 0)],
    [application |-> "svc-a", timestamp |-> Ts("offset", 0)],
    [ timestamp |-> Ts("naive", 1), repository |-> "org/repo",
      application |-> "svc-b", branch |-> "main", commit_sha |-> "abc123",
      scan_type |-> "full", workflow_run_id |-> 77, workflow_run_number |-> 3 ] }

ComplianceObjects ==
  { Empty,
    [overall_status |-> "NON_COMPLIANT", total_issues |-> 5],
    [overall_status |-> "COMPLIANT", severity_threshold |-> "high"],
    [scan_coverage |-> Empty],
    [scan_coverage |-> [secrets_scanning |-> TRUE, dast_scanning |-> TRUE]],
    [ total_issues |-> 2,
      scan_coverage |-> [ secrets_scanning |-> TRUE, sast_scanning |-> TRUE,
                          dependency_scanning |-> TRUE, container_scanning |-> TRUE,
                          dast_scanning |-> TRUE ] ] }

ResultObjects ==
  { Empty,
    [sast |-> [semgrep_findings |-> 2]],
    [sast |-> [semgrep_findings |-> 1, eslint_findings |-> 2, bandit_findings |-> 4]],
    [sast |-> Empty, secrets |-> [findings |-> 1]],
    [ dependencies |-> [vulnerabilities |-> 3],
      web_security |-> [security_headers_grade |-> "A"] ] }

EvidenceObjects ==
  { Empty,
    [sarif_uploaded |-> TRUE],
    [artifacts_available |-> FALSE],
    [sarif_uploaded |-> TRUE, artifacts_available |-> FALSE] }

\* The section named key: absent, or one of the objects.
Section(key, objects) == {Empty} \cup {key :> o : o \in objects}

Payloads ==
  { m @@ c @@ r @@ e : m \in Section("scan_metadata", MetaObjects),
                       c \in Section("compliance_status", ComplianceObjects),
                       r \in Section("scan_results", ResultObjects),
                       e \in Section("evidence_artifacts", EvidenceObjects) }

IngestBodies ==
  {BodyAbsent, BodyMalformed, JNull, JArray(0), JArray(1)}
  \cup {JObject(p) : p \in Payloads}

IngestRequests ==
  {Request("POST /security-scans", Peer, Bearer \o Key, b, NoArgs) : b \in IngestBodies}

InitIngest ==
  /\ secret = SecretOf(Key)
  /\ table = {}
  /\ seq = 0
  /\ now = 0
  /\ req = EmptyBag

\* One scan at a time, into the empty table.
ReceiveOneScan(arrivals) ==
  /\ req = EmptyBag
  /\ table = {}
  /\ ReceiveScan(arrivals)

NextIngest ==
  \/ ReceiveOneScan(IngestRequests)
  \/ ScanExecute
  \/ ScanCommit
  \/ Return
  \/ Tick

SpecIngest == InitIngest /\ [][NextIngest]_vars

(***************************************************************************)
(* Properties.                                                             *)
(***************************************************************************)
IsScan(s) == s.endpoint = "POST /security-scans"
IsStatus(s) == s.endpoint = "GET /compliance-status"
IsReport(s) == s.endpoint = "GET /compliance-report"
Protected(s) == IsScan(s) \/ IsReport(s) \/ IsStatus(s)
Returned(s) == s.pc = "done"
Denied(s) == ~validate_api_key(s.header)
StorageCalls == {"connect", "cursor", "execute", "fetchone", "commit"}
TransactionCalls == {"execute", "fetchone", "commit"}
StorageFailed(s) == s.exc.at \in StorageCalls
OtherFailed(s) == s.exc # NoExc /\ ~StorageFailed(s)
Persisted(s) == {x \in table : x.id \in s.inserted}
DatabaseErrorBody == [error |-> "Database error occurred"]
InternalErrorBody == [error |-> "Internal server error"]

\* C1: a denied request to a protected endpoint has returned 401
\* "Unauthorized", whatever its body, parameters or path, and has made no
\* storage access: no connection, no cursor, no transaction, no insert.
C1_DeniedBeforeStorage ==
  \A s \in InFlight :
    (Protected(s) /\ Denied(s)) =>
      /\ Returned(s)
      /\ s.resp = Response(401, [error |-> "Unauthorized"])
      /\ ~s.touched
      /\ s.conn = "none" /\ s.cur = "none" /\ s.txn = "none"
      /\ s.inserted = {} /\ s.pending = {}

C1_Witness ==
  /\ \E s \in InFlight :
       /\ IsScan(s) /\ Denied(s) /\ Returned(s)
       /\ s.body = JObject(ScanA) /\ s.resp.status = 401
  /\ table # {}

\* C2: a request passes the credential check only if a secret is configured
\* and its Authorization header is "Bearer " followed by exactly the secret.
C2_ExactBearerToken ==
  \A s \in InFlight :
    (Protected(s) /\ s.resp.status # 401) =>
      /\ secret.set
      /\ s.header = Bearer \o secret.value

\* C3: a 201 response carries the id of the row stored for its payload, and
\* an authorized GET /compliance-status/A whose query did not fail, made when
\* one row of A is strictly newer than every other row of A, answers 200 with
\* the status, the issues, the timestamp and the five coverage flags of that
\* row.
C3_StatusReflectsNewest ==
  /\ \A s \in InFlight :
       (IsScan(s) /\ Returned(s) /\ s.resp.status = 201) =>
         \E x \in table :
           /\ s.resp.json.scan_id = x.id
           /\ s.inserted = {x.id}
           /\ x.application =
                Get(Get(s.body.fields, "scan_metadata", Empty), "application", "")
           /\ x.overall_status =
                Get(Get(s.body.fields, "compliance_status", Empty),
                    "overall_status", "UNKNOWN")
           /\ x.total_issues =
                Get(Get(s.body.fields, "compliance_status", Empty), "total_issues", 0)
  /\ \A s \in InFlight :
       (IsStatus(s) /\ Returned(s) /\ ~Denied(s) /\ s.exc = NoExc) =>
         \A x \in table :
           ( /\ x.application = s.args.application
             /\ \A y \in table \ {x} :
                  y.application = x.application => y.timestamp < x.timestamp )
           => /\ s.resp.status = 200
              /\ s.resp.json.application = s.args.application
              /\ s.resp.json.current_status = x.overall_status
              /\ s.resp.json.total_issues = x.total_issues
              /\ s.resp.json.last_scan = Ts("naive", x.timestamp)
              /\ s.resp.json.scan_coverage =
                   [ secrets_scanning |-> x.secrets_scanning,
                     sast_scanning |-> x.sast_scanning,
                     dependency_scanning |-> x.dependency_scanning,
                     container_scanning |-> x.container_scanning,
                     dast_scanning |-> x.dast_scanning ]

C3_Witness ==
  /\ \E s \in InFlight :
       /\ IsStatus(s) /\ Returned(s) /\ s.resp.status = 200
       /\ s.resp.json.current_status = "NON_COMPLIANT"
       /\ s.resp.json.total_issues = 5
  /\ \E x, y \in table :
       /\ x.application = "svc-a" /\ y.application = "svc-a"
       /\ x.timestamp < y.timestamp
       /\ y.overall_status = "NON_COMPLIANT"

\* C4: an authorized POST /security-scans whose body is absent, is not JSON
\* or is JSON but not an object is answered 400 and stores nothing.
C4_BadBodyIs400 ==
  \A s \in InFlight :
    ( /\ IsScan(s) /\ Returned(s) /\ ~Denied(s)
      /\ (s.body.kind = "absent" \/ s.body.kind = "malformed"
          \/ (s.body.kind = "json" /\ s.body.type # "object")) )
    => /\ s.resp.status = 400
       /\ Persisted(s) = {}

\* C7: in POST /security-scans a failed storage call (connect, cursor,
\* insert, fetch of the id, commit) ends with the transaction rolled back, no
\* row of the request in the table and the 500 "Database error occurred";
\* any other failure ends with the 500 "Internal server error"; neither body
\* is ever sent for the other kind of failure.
C7_ErrorMapping ==
  \A s \in InFlight :
    (IsScan(s) /\ Returned(s)) =>
      /\ StorageFailed(s) =>
           /\ s.resp = Response(500, DatabaseErrorBody)
           /\ s.txn = (IF s.exc.at \in TransactionCalls
                       THEN "rolledback" ELSE "none")
           /\ Persisted(s) = {}
      /\ OtherFailed(s) =>
           /\ s.resp = Response(500, InternalErrorBody)
           /\ Persisted(s) = {}
      /\ s.resp.json = DatabaseErrorBody => StorageFailed(s)
      /\ s.resp.json = InternalErrorBody => OtherFailed(s)

C7_Witness ==
  \E s \in InFlight :
    /\ IsScan(s) /\ Returned(s) /\ s.exc.at = "commit"
    /\ s.inserted # {} /\ s.resp.status = 500

\* C8: a request that has returned holds no open connection, no open cursor
\* and no open transaction, whichever way it left its handler; what it
\* acquired is closed, and the transaction of a POST /security-scans was
\* ended by a commit or a rollback, not by the close of its connection.
C8_ResourcesReleased ==
  \A s \in InFlight :
    Returned(s) =>
      /\ s.conn # "open" /\ s.cur # "open" /\ s.txn # "open"
      /\ s.pending = {}
      /\ (s.touched /\ s.exc.at # "connect") => s.conn = "closed"
      /\ IsScan(s) => s.txn # "aborted"

C8_Witness ==
  \E s \in InFlight :
    /\ IsScan(s) /\ Returned(s) /\ s.exc.class = "ValueError"
    /\ s.conn = "closed" /\ s.cur = "closed"

\* A step keeps every row as it is, and adds one only as the commit of a POST
\* /security-scans that answers 201 with the new row's id.
C9_Step ==
  /\ table \subseteq table'
  /\ table' # table =>
       \E s \in InFlight, t \in BagToSet(req') :
         /\ IsScan(s) /\ s.pc = "commit"
         /\ req' = Put(Take(req, s), t)
         /\ Returned(t) /\ t.resp.status = 201
         /\ \E x \in table' :
              /\ table' \ table = {x}
              /\ x.id = t.resp.json.scan_id
              /\ \A y \in table : y.id # x.id

\* Ids are unique, a POST /security-scans has one row in the table if it
\* answered 201 and none otherwise, and no other request inserts.
C9_State ==
  /\ \A x, y \in table : x.id = y.id => x = y
  /\ \A s \in InFlight :
       (IsScan(s) /\ Returned(s)) =>
         IF s.resp.status = 201
         THEN Cardinality(Persisted(s)) = 1
         ELSE Persisted(s) = {}
  /\ \A s \in InFlight : ~IsScan(s) => s.inserted = {}

\* C9: the table only grows, and only by the commit of a POST
\* /security-scans that answers 201: exactly one new row, under an id no
\* other row has, the id the response carries.  A POST answered anything
\* else has left no row, and no row is ever changed or removed.
C9_AppendOnly == [](C9_State) /\ [][C9_Step]_vars

C9_Witness ==
  /\ Cardinality(table) = 2
  /\ \E s \in InFlight :
       IsScan(s) /\ Returned(s) /\ s.resp.status = 201 /\ Cardinality(Persisted(s)) = 1

\* C10: a denied request to a protected endpoint has logged a warning that
\* names the caller's address.
C10_DeniedIsLogged ==
  \A s \in InFlight :
    (Protected(s) /\ Denied(s) /\ Returned(s)) =>
      \E i \in DOMAIN s.logs :
        /\ s.logs[i].level = "WARNING"
        /\ "origin" \in DOMAIN s.logs[i]
        /\ s.logs[i].origin = s.origin


\* C5: an authorized POST /security-scans whose body is a JSON object with
\* any subset of the four sections and of their sub-fields, none included,
\* whose timestamp is absent or parseable and whose storage calls succeed, is
\* answered 201 and stores exactly one row, in which every field the payload
\* has is stored as given, every field it lacks takes its default, and the
\* SAST count is the sum of the three tool counts.
C5_DefaultsStored ==
  \A s \in InFlight :
    ( /\ IsScan(s) /\ Returned(s) /\ ~Denied(s)
      /\ s.body.kind = "json" /\ s.body.type = "object"
      /\ ~StorageFailed(s)
      /\ LET m == Get(s.body.fields, "scan_metadata", Empty)
         IN  "timestamp" \in DOMAIN m => m.timestamp.fmt # "garbage" )
    => LET m == Get(s.body.fields, "scan_metadata", Empty)
           c == Get(s.body.fields, "compliance_status", Empty)
           r == Get(s.body.fields, "scan_results", Empty)
           e == Get(s.body.fields, "evidence_artifacts", Empty)
           v == Get(c, "scan_coverage", Empty)
           sast == Get(r, "sast", Empty)
       IN  /\ s.resp.status = 201
           /\ \E x \in table :
                /\ Persisted(s) = {x}
                /\ x.repository = Get(m, "repository", "")
                /\ x.application = Get(m, "application", "")
                /\ x.branch = Get(m, "branch", "")
                /\ x.commit_sha = Get(m, "commit_sha", "")
                /\ x.scan_type = Get(m, "scan_type", "")
                /\ x.workflow_run_id = GetOrNull(m, "workflow_run_id")
                /\ x.workflow_run_number = GetOrNull(m, "workflow_run_number")
                /\ x.overall_status = Get(c, "overall_status", "UNKNOWN")
                /\ x.total_issues = Get(c, "total_issues", 0)
                /\ x.severity_threshold = Get(c, "severity_threshold", "")
                /\ x.secrets_scanning = Get(v, "secrets_scanning", FALSE)
                /\ x.sast_scanning = Get(v, "sast_scanning", FALSE)
                /\ x.dependency_scanning = Get(v, "dependency_scanning", FALSE)
                /\ x.container_scanning = Get(v, "container_scanning", FALSE)
                /\ x.dast_scanning = Get(v, "dast_scanning", FALSE)
                /\ x.secrets_findings = Get(Get(r, "secrets", Empty), "findings", 0)
                /\ x.sast_findings = Get(sast, "semgrep_findings", 0)
                                     + Get(sast, "eslint_findings", 0)
                                     + Get(sast, "bandit_findings", 0)
                /\ x.dependency_vulnerabilities =
                     Get(Get(r, "dependencies", Empty), "vulnerabilities", 0)
                /\ x.web_security_grade =
                     Get(Get(r, "web_security", Empty), "security_headers_grade", "")
                /\ x.sarif_uploaded = Get(e, "sarif_uploaded", FALSE)
                /\ x.artifacts_available = Get(e, "artifacts_available", TRUE)

\* C6: an authorized POST /security-scans with a non-empty JSON object whose
\* storage calls succeed is answered 201 and stores one row; its timestamp is
\* the payload's when that is a parseable ISO-8601 value (a trailing Z read
\* as UTC), and the time of ingestion when the payload's timestamp is
\* missing or cannot be parsed.
C6_TimestampFallback ==
  \A s \in InFlight :
    ( /\ IsScan(s) /\ Returned(s) /\ ~Denied(s)
      /\ s.body.kind = "json" /\ s.body.type = "object" /\ s.body.size > 0
      /\ ~StorageFailed(s) )
    => LET m == Get(s.body.fields, "scan_metadata", Empty)
       IN  /\ s.resp.status = 201
           /\ \E x \in table :
                /\ Persisted(s) = {x}
                /\ IF "timestamp" \in DOMAIN m /\ m.timestamp.fmt # "garbage"
                   THEN x.timestamp = m.timestamp.t
                   ELSE x.timestamp \in 0..now

====
